---- MODULE Spec2Model ----
(***************************************************************************)
(* Session lifecycle and event-replay core of the relay server             *)
(* (server/src/session.ts): the Session class (event log, status state     *)
(* machine, destroy) and the SessionManager (create, resume, destroy,      *)
(* staleness sweep), with the child process and the SSE clients as the     *)
(* environment.                                                            *)
(***************************************************************************)
EXTENDS Integers, Sequences, FiniteSets, TLC

(* ------------------------------ bounds --------------------------------- *)

\* Session objects ever constructed (createSession + resumeSession calls).
MaxObj == 3
\* stdout lines and stderr chunks the child processes emit, over the whole run,
\* in the lifecycle specification ...
MaxOutput == 2
\* ... in the specifications with SSE clients, history reads or a found file ...
MaxStreamOutput == 1
\* ... and in the specification of one session.
MaxLines == 2
\* sendInput, sendStreamJsonMessage and sendInterrupt calls of the callers.
MaxCalls == 2
\* destroy() calls that may be waiting on one Session at the same time.
MaxPending == 1
\* destroy() calls of destroyAll that may be waiting on one Session.
MaxDestroys == 2
\* lines after the metadata line of a durable file found at startup.
MaxFileLines == 5
\* getHistory is called with 0..MaxHistory lines.
MaxHistory == 5
\* config.bufferSize: capacity of the in-memory ring buffer.
bufferSize == 4
\* config.maxSessions: cap on non-dead sessions.
maxSessions == 1

\* The session ids of the sessions directory, and the one the specifications
\* of a single id use.
AllIDs == {"sess_a", "sess_b"}
IDs == {"sess_a"}

\* config.sessionTimeoutSec, in ticks of the clock.
Timeout == 1

\* The seconds the clock runs for.
MaxNow == 3
Clients == {"c1"}

\* Other subscribers of a Session: callbacks that throw, that call
\* session.subscribe, that session.subscribe registers meanwhile, that only
\* take the envelope, that call session.unsubscribe for "plain" or for
\* themselves.
Listeners == {"thrower", "adder", "late", "plain", "remover", "quitter"}

\* The listeners whose callers register them while callbacks throw or subscribe,
\* and while callbacks unsubscribe.
Subscribing == {"thrower", "adder", "plain"}
Unsubscribing == {"remover", "quitter", "plain"}
Callbacks == Clients \cup Listeners
Objs == 1..MaxObj
NoObj == 0

(* ------------------------- JavaScript values --------------------------- *)

Undefined == "undefined"

\* Property access: a missing property reads as undefined.
Get(r, f) == IF f \in DOMAIN r THEN r[f] ELSE Undefined

\* typeof r[f] === 'number' (the model's only numbers are cost figures).
IsNumber(r, f) == f \in DOMAIN r

\* Array.prototype.slice(start) for an integer start: a negative start counts
\* from the end, and -0 is 0.
Slice(arr, start) ==
    LET from == IF start < 0
                THEN (IF Len(arr) + start < 0 THEN 0 ELSE Len(arr) + start)
                ELSE (IF start > Len(arr) THEN Len(arr) ELSE start)
    IN  SubSeq(arr, from + 1, Len(arr))

\* JSON.stringify of an envelope: one line of the durable file.
Stringify(evt) == [ok |-> TRUE, val |-> evt]

\* A line JSON.parse throws on.
Malformed == [ok |-> FALSE, val |-> Undefined]

(* --------------------------- process output ---------------------------- *)

CostFigures == {2, 5}

MAssistant == [type |-> "assistant"]
MToolUse == [type |-> "control_request", request |-> [subtype |-> "can_use_tool"]]
MOtherCtl == [type |-> "control_request", request |-> [subtype |-> "hook_callback"]]
MBareCtl == [type |-> "control_request"]
MInit == [type |-> "system", subtype |-> "init", session_id |-> "cli_1"]
MUser == [type |-> "user"]
MNoType == [text |-> "x"]
MResult == [type |-> "result"]
MResultCost(c) == [type |-> "result", cost_usd |-> c]
MResultTotal(t) == [type |-> "result", total_cost_usd |-> t]
MResultBoth(c, t) == [type |-> "result", cost_usd |-> c, total_cost_usd |-> t]

ResultMessages ==
    {MResult} \cup {MResultCost(c) : c \in CostFigures}
              \cup {MResultTotal(t) : t \in CostFigures}
              \cup UNION {{MResultBoth(c, t) : t \in CostFigures \ {c}} :
                             c \in CostFigures}

\* A stdout line after trim(): empty, not JSON, or a JSON object.
EmptyLine == [kind |-> "empty"]
RawLine == [kind |-> "text"]
JsonLine(m) == [kind |-> "json", val |-> m]

\* The message of a line that is not JSON, and of a stderr chunk.
RawMessage == [type |-> "raw", text |-> "t"]
StderrMessage == [type |-> "stderr", text |-> "t"]

\* Every kind of line the status machine distinguishes.
AllLines ==
    {EmptyLine, RawLine}
    \cup {JsonLine(m) : m \in {MAssistant, MToolUse, MOtherCtl, MBareCtl, MInit,
                               MUser, MNoType} \cup ResultMessages}

\* The lines the lifecycle specification draws from.
CoreLines == {JsonLine(MInit)}

(* ------------------------------- state --------------------------------- *)

VARIABLES
    sessions,      \* SessionManager.sessions: id -> Session object, or NoObj
    files,         \* sessionsDir: id -> [exists, lines]
    nobj,          \* Session objects constructed so far
    objId,         \* Session.id
    status,        \* Session.status
    eventCounter,  \* Session.eventCounter
    buffer,        \* Session.buffer
    subscribers,   \* Session.subscribers, in insertion order
    process,       \* Session.process is not null
    stdoutRl,      \* Session.stdoutRl is not null
    jsonlStream,   \* Session.jsonlStream is not null
    totalCostUsd,  \* Session.totalCostUsd
    cliSessionId,  \* Session.cliSessionId
    pending,       \* destroy() calls waiting for exit or for their timer
    proc,          \* the child process spawned for the Session
    emitted,       \* lines and chunks emitted so far (bounded by MaxOutput)
    conn,          \* SSE connections: client -> [obj, k, gap]
    recv,          \* envelopes each client was sent
    appended,      \* history: envelopes each Session appended, in order
    loaded,        \* history: what each Session was constructed with (counter,
                   \* buffer, the file's lines, whether by resumeSession)
    hist,          \* the last getHistory call: its arguments and result
    pipe,          \* stdout lines each process wrote that were not read yet
    written,       \* history: the non-empty stdout lines each process wrote
    ret,           \* what the last createSession, resumeSession or destroySession
                   \* call returned, threw or waits for
    sent,          \* the last sendInput / sendStreamJsonMessage / sendInterrupt call
    listed,        \* what the last listSessions call returned
    now,           \* Date.now() / 1000
    lastActiveAt,  \* Session.lastActiveAt
    sessionTimeoutSec,  \* config.sessionTimeoutSec
    capacity,      \* config.bufferSize, which every Session gets as its bufferSize
    called         \* history: the calls of the listeners, in order

vars == <<sessions, files, nobj, objId, status, eventCounter, buffer, subscribers,
          process, stdoutRl, jsonlStream, totalCostUsd, cliSessionId,
          pending, proc, emitted, conn, recv, appended, loaded, hist,
          pipe, written, ret, sent, listed, now, lastActiveAt,
          sessionTimeoutSec, capacity, called>>

pipeVars == <<pipe, written>>

timeVars == <<now, lastActiveAt, sessionTimeoutSec, capacity>>

varsButRet == <<sessions, files, nobj, objId, status, eventCounter, buffer,
                subscribers, process, stdoutRl, jsonlStream, totalCostUsd,
                cliSessionId, pending, proc, emitted, conn, recv, appended,
                loaded, hist, pipe, written, sent, listed, now, lastActiveAt,
                sessionTimeoutSec, capacity, called>>

\* The Session fields pushEvent leaves alone.
sessionVars2 == <<objId, status, process, stdoutRl, jsonlStream,
                  totalCostUsd, cliSessionId, pending>>

NoProc == [spawned |-> FALSE, exited |-> FALSE, errored |-> FALSE,
           sigterm |-> FALSE, sigkill |-> FALSE, sigint |-> FALSE,
           stdin |-> <<>>, resume |-> Undefined,
           closes |-> 0, ends |-> 0]

NoConn == [obj |-> NoObj, k |-> 0, gap |-> FALSE]

NoFile == [exists |-> FALSE, lines |-> <<>>]

(* ------------------------------ Event Log ------------------------------ *)

Envelope(id, event, data) == [id |-> id, event |-> event, data |-> data]

\* The part of the state pushEvent reads and writes for Session o.
Store(o) ==
    [counter |-> eventCounter[o],
     buffer  |-> buffer[o],
     stream  |-> jsonlStream[o] /\ files[objId[o]].exists,
     lines   |-> files[objId[o]].lines,
     subs    |-> subscribers[o],
     rc      |-> recv,
     calls   |-> called,
     app     |-> appended[o]]

\* Set.prototype.add / Set.prototype.delete on the insertion-ordered Set.
subscribe(subs, fn) ==
    IF \E i \in 1..Len(subs) : subs[i] = fn THEN subs ELSE Append(subs, fn)

unsubscribe(subs, fn) == SelectSeq(subs, LAMBDA g : g # fn)

\* What a subscriber does when it is called: an SSE subscriber writes the
\* envelope to its client's response; "adder" registers the listener "late" with
\* session.subscribe; "thrower" throws.
Subscribed(subs, fn) == IF fn = "adder" THEN subscribe(subs, "late") ELSE subs

Throws(fn) == fn = "thrower"

\* "remover" calls session.unsubscribe for the listener "plain", and "quitter"
\* for itself.
Unsubscribed(subs, fn) ==
    IF fn = "remover" THEN unsubscribe(subs, "plain")
    ELSE IF fn = "quitter" THEN unsubscribe(subs, fn)
    ELSE subs

\* The Set iterator after entry i of `before`, when the callback turned the Set
\* into `after`: an entry deleted from the Set is no longer there to be visited,
\* so the next entry comes after those of the first i that are left.
NextEntry(before, after, i) ==
    Cardinality({k \in 1..i : \E j \in 1..Len(after) : after[j] = before[k]}) + 1

\* The calls so far and the call fn(evt), if fn is a listener.
Call(calls, fn, evt) ==
    IF fn \in Listeners THEN Append(calls, [fn |-> fn, id |-> evt.id]) ELSE calls

\* A loop without try/catch: the first callback that throws ends it.
RECURSIVE DeliverUncaught(_, _, _)
DeliverUncaught(D, i, evt) ==
    IF i > Len(D.subs) THEN D
    ELSE LET fn == D.subs[i]
             E == [subs  |-> Unsubscribed(Subscribed(D.subs, fn), fn),
                   rc    |-> [D.rc EXCEPT ![fn] = Append(@, evt)],
                   calls |-> Call(D.calls, fn, evt)]
         IN  IF Throws(fn) THEN E
             ELSE DeliverUncaught(E, NextEntry(D.subs, E.subs, i), evt)

\* for (const fn of this.subscribers) { try { fn(buffered) } catch {} }: the
\* loop visits the Set in insertion order, an entry added during the loop
\* included, an entry deleted before its turn not.
RECURSIVE Deliver(_, _, _)
Deliver(D, i, evt) ==
    IF i > Len(D.subs) THEN D
    ELSE LET fn == D.subs[i]
             E == [subs  |-> Unsubscribed(Subscribed(D.subs, fn), fn),
                   rc    |-> [D.rc EXCEPT ![fn] = Append(@, evt)],
                   calls |-> Call(D.calls, fn, evt)]
         IN  Deliver(E, NextEntry(D.subs, E.subs, i), evt)

\* A post-increment: the envelope gets the counter's old value.
EnvelopeIdPost(counter) == counter

\* id: ++this.eventCounter (the value of the expression)
EnvelopeId(counter) == counter + 1

\* An eviction that drops the entry just pushed.
shiftNewest(buf) ==
    IF Len(buf) > capacity THEN SubSeq(buf, 1, Len(buf) - 1) ELSE buf

\* if (this.buffer.length > this.bufferSize) this.buffer.shift()
shift(buf) == IF Len(buf) > capacity THEN Tail(buf) ELSE buf

PushEvent(S, event, data) ==
    LET buffered == Envelope(EnvelopeId(S.counter), event, data)
        pushed == Append(S.buffer, buffered)
        delivered == Deliver([subs |-> S.subs, rc |-> S.rc, calls |-> S.calls],
                             1, buffered)
    IN  [S EXCEPT
           !.counter = S.counter + 1,
           !.buffer  = shift(pushed),
           !.lines   = IF S.stream THEN Append(@, Stringify(buffered)) ELSE @,
           !.subs    = delivered.subs,
           !.rc      = delivered.rc,
           !.calls   = delivered.calls,
           !.app     = Append(@, buffered)]

\* The state after the pushEvent calls of a handler of Session o: the log ...
CommitLog(o, S) ==
    /\ eventCounter' = [eventCounter EXCEPT ![o] = S.counter]
    /\ buffer' = [buffer EXCEPT ![o] = S.buffer]
    /\ recv' = S.rc
    /\ subscribers' = [subscribers EXCEPT ![o] = S.subs]
    /\ called' = S.calls
    /\ appended' = [appended EXCEPT ![o] = S.app]

\* ... and the durable file.
Commit(o, S) ==
    /\ CommitLog(o, S)
    /\ files' = [files EXCEPT ![objId[o]].lines = S.lines]

getHistory(buf, lines) ==
    IF lines >= Len(buf) THEN buf ELSE Slice(buf, 0 - lines)

(* ---------------------------- durable file ----------------------------- *)

\* The metadata line createSession writes first (id 0, event 'meta').
MetaLine ==
    Stringify(Envelope(0, "meta", [working_directory |-> "/tmp/proj"]))

\* A loop that gives up at the first line that does not parse.
RECURSIVE LoadLinesAbort(_, _, _, _)
LoadLinesAbort(lines, i, buf, counter) ==
    IF i > Len(lines) THEN [buffer |-> buf, counter |-> counter]
    ELSE IF lines[i].ok
         THEN LoadLinesAbort(lines, i + 1, Append(buf, lines[i].val),
                             IF lines[i].val.id > counter THEN lines[i].val.id
                             ELSE counter)
         ELSE [buffer |-> buf, counter |-> counter]

\* The loop of loadBufferFromFile over the lines of the file: a line that parses
\* is pushed and may raise the counter, a line that does not is skipped.
RECURSIVE LoadLines(_, _, _, _)
LoadLines(lines, i, buf, counter) ==
    IF i > Len(lines) THEN [buffer |-> buf, counter |-> counter]
    ELSE IF lines[i].ok
         THEN LoadLines(lines, i + 1, Append(buf, lines[i].val),
                        IF lines[i].val.id > counter THEN lines[i].val.id
                        ELSE counter)
         ELSE LoadLines(lines, i + 1, buf, counter)

\* A load that keeps the oldest entries.
loadBufferFromFileOldest(lines) ==
    LET r == LoadLines(lines, 1, <<>>, 0)
    IN  [buffer  |-> IF Len(r.buffer) > capacity
                     THEN SubSeq(r.buffer, 1, capacity) ELSE r.buffer,
         counter |-> r.counter]

loadBufferFromFile(lines) ==
    LET r == LoadLines(lines, 1, <<>>, 0)
    IN  [buffer  |-> IF Len(r.buffer) > capacity
                     THEN Slice(r.buffer, 0 - capacity) ELSE r.buffer,
         counter |-> r.counter]

\* The system init test of readSessionMeta.
IsInitEvent(evt) ==
    /\ evt.event = "message"
    /\ Get(evt.data, "type") = "system"
    /\ Get(evt.data, "subtype") = "init"
    /\ Get(evt.data, "session_id") # Undefined

\* A reader that falls back to the session id of the server.
MetaCliSessionIdOrOwn(lines, i, cli) == "sess"

\* readSessionMeta(...).cliSessionId: the session_id of the last init line.
RECURSIVE MetaCliSessionId(_, _, _)
MetaCliSessionId(lines, i, cli) ==
    IF i > Len(lines) THEN cli
    ELSE IF lines[i].ok /\ IsInitEvent(lines[i].val)
         THEN MetaCliSessionId(lines, i + 1, lines[i].val.data.session_id)
         ELSE MetaCliSessionId(lines, i + 1, cli)

(* --------------------------- status machine ---------------------------- *)

\* request?.subtype
RequestSubtype(parsed) ==
    IF "request" \in DOMAIN parsed THEN Get(parsed.request, "subtype")
    ELSE Undefined

\* A 'result' that makes the session ready whatever its status.
MsgStatusResultUnguarded(st, parsed) ==
    LET type == Get(parsed, "type")
    IN  IF type = "assistant" /\ st # "dead" THEN "busy"
        ELSE IF type = "control_request" /\ st # "dead"
                /\ RequestSubtype(parsed) = "can_use_tool"
             THEN "waiting_for_input"
        ELSE IF type = "result" THEN "ready"
        ELSE Undefined

\* An 'assistant' that makes the session busy whatever its status.
MsgStatusAssistantUnguarded(st, parsed) ==
    LET type == Get(parsed, "type")
    IN  IF type = "assistant" THEN "busy"
        ELSE IF type = "control_request" /\ st # "dead"
                /\ RequestSubtype(parsed) = "can_use_tool"
             THEN "waiting_for_input"
        ELSE IF type = "result" /\ st # "dead" THEN "ready"
        ELSE Undefined

\* A control_request of any subtype makes the session wait for input.
MsgStatusAnyControl(st, parsed) ==
    LET type == Get(parsed, "type")
    IN  IF type = "assistant" /\ st # "dead" THEN "busy"
        ELSE IF type = "control_request" /\ st # "dead" THEN "waiting_for_input"
        ELSE IF type = "result" /\ st # "dead" THEN "ready"
        ELSE Undefined

\* updateStatusFromMessage: the status the message sets (and reports in a status
\* envelope), or Undefined when it sets none.
MsgStatus(st, parsed) ==
    LET type == Get(parsed, "type")
    IN  IF type = Undefined THEN Undefined
        ELSE IF type = "assistant"
             THEN (IF st # "dead" THEN "busy" ELSE Undefined)
        ELSE IF type = "control_request"
             THEN (IF RequestSubtype(parsed) = "can_use_tool" /\ st # "dead"
                   THEN "waiting_for_input" ELSE Undefined)
        ELSE IF type = "result"
             THEN (IF st # "dead" THEN "ready" ELSE Undefined)
        ELSE Undefined

\* A cost that adds each figure to the total.
MsgCostSum(cost, parsed) ==
    IF Get(parsed, "type") = "result"
    THEN IF IsNumber(parsed, "total_cost_usd") THEN cost + parsed.total_cost_usd
         ELSE IF IsNumber(parsed, "cost_usd") THEN cost + parsed.cost_usd
         ELSE cost
    ELSE cost

\* updateStatusFromMessage: totalCostUsd after the message.
MsgCost(cost, parsed) ==
    IF Get(parsed, "type") = "result"
    THEN LET c1 == IF IsNumber(parsed, "cost_usd") THEN parsed.cost_usd ELSE cost
         IN  IF IsNumber(parsed, "total_cost_usd") THEN parsed.total_cost_usd
             ELSE c1
    ELSE cost

\* updateStatusFromMessage(parsed); pushEvent('message', parsed)
OnParsed(S, st, parsed) ==
    LET ns == MsgStatus(st, parsed)
        S1 == IF ns # Undefined THEN PushEvent(S, "status", [status |-> ns]) ELSE S
    IN  PushEvent(S1, "message", parsed)

(* ------------------------------- input --------------------------------- *)

\* A guard that forgets the status.
CanSendIgnoringStatus(hasProcess, st) == hasProcess

\* A guard that lets input through only while a turn is open.
CanSendWhenTurnOpen(hasProcess, st) ==
    hasProcess /\ st \in {"busy", "waiting_for_input"}

\* The guard of sendInput and sendInterrupt: there is a process (spawned with a
\* stdin pipe) and the status is not 'dead'.
CanSend(hasProcess, st) == hasProcess /\ st # "dead"

\* An input that is held back instead of written.
StdinWriteQueued(stdin, text) == stdin

\* this.process.stdin.write(text + '\n')
StdinWrite(stdin, text) == Append(stdin, text)

\* What the callers send: a user message, and a control response.
UserText == "user_text"
ControlResponse == "control_response"

\* sendInput(text), called as `op`.
Send(o, op, text) ==
    LET ok == CanSend(process[o], status[o])
    IN  /\ o <= nobj /\ sent.n < MaxCalls
        /\ proc' = IF ok THEN [proc EXCEPT ![o].stdin = StdinWrite(@, text)]
                    ELSE proc
        /\ sent' = [n |-> sent.n + 1, op |-> op, obj |-> o, text |-> text,
                    val |-> ok]
        /\ lastActiveAt' = IF ok THEN [lastActiveAt EXCEPT ![o] = now]
                            ELSE lastActiveAt
        /\ UNCHANGED <<sessions, files, nobj, sessionVars2, subscribers, eventCounter, buffer,
                       emitted, conn, recv, appended, loaded, hist, pipeVars, ret,
                       listed, now, sessionTimeoutSec, capacity, called>>

sendInput(o, text) == Send(o, "sendInput", text)

\* sendStreamJsonMessage(msg): sendInput(JSON.stringify(msg))
sendStreamJsonMessage(o, msg) == Send(o, "sendStreamJsonMessage", msg)

sendInterrupt(o) ==
    LET ok == CanSend(process[o], status[o])
    IN  /\ o <= nobj /\ sent.n < MaxCalls
        /\ proc' = IF ok THEN [proc EXCEPT ![o].sigint = TRUE] ELSE proc
        /\ sent' = [n |-> sent.n + 1, op |-> "sendInterrupt", obj |-> o,
                    text |-> Undefined, val |-> ok]
        /\ UNCHANGED <<sessions, files, nobj, sessionVars2, subscribers, eventCounter, buffer,
                       emitted, conn, recv, appended, loaded, hist, pipeVars, ret,
                       listed, timeVars, called>>

(* --------------------------- process events ---------------------------- *)

\* stdoutRl.on('line'): the handler, called with a line.
OnLine(o, line) ==
    /\ o <= nobj /\ stdoutRl[o]
    /\ lastActiveAt' = [lastActiveAt EXCEPT ![o] = now]
    /\ IF line.kind = "empty"
       THEN UNCHANGED <<status, totalCostUsd, cliSessionId, eventCounter, buffer,
                        files, recv, appended, subscribers, called>>
       ELSE IF line.kind = "text"
       THEN /\ Commit(o, PushEvent(Store(o), "message", RawMessage))
            /\ UNCHANGED <<status, totalCostUsd, cliSessionId>>
       ELSE LET parsed == line.val
                ns == MsgStatus(status[o], parsed)
            IN  /\ cliSessionId' =
                     IF /\ Get(parsed, "type") = "system"
                        /\ Get(parsed, "subtype") = "init"
                        /\ Get(parsed, "session_id") # Undefined
                        /\ cliSessionId[o] = Undefined
                     THEN [cliSessionId EXCEPT ![o] = parsed.session_id]
                     ELSE cliSessionId
                /\ status' = IF ns # Undefined THEN [status EXCEPT ![o] = ns]
                             ELSE status
                /\ totalCostUsd' = [totalCostUsd EXCEPT ![o] = MsgCost(@, parsed)]
                /\ Commit(o, OnParsed(Store(o), status[o], parsed))
    /\ UNCHANGED <<sessions, nobj, objId, process, stdoutRl,
                   jsonlStream, pending, proc, conn, loaded, hist, ret, sent,
                   listed, now, sessionTimeoutSec, capacity>>

\* The lines written so far, with `line` if it is not empty.
Written(w, line) == IF line.kind = "empty" THEN w ELSE Append(w, line)

\* The process writes a line to its stdout while nothing waits in the pipe, and
\* the line reader hands it to the handler at once.
StdoutLine(o, line) ==
    /\ pipe[o] = <<>>
    /\ OnLine(o, line)
    /\ emitted' = emitted + 1
    /\ written' = [written EXCEPT ![o] = Written(@, line)]
    /\ UNCHANGED pipe

\* The process writes a line to its stdout, where it waits to be read.
Write(o, line) ==
    /\ o <= nobj /\ proc[o].spawned /\ ~proc[o].exited
    /\ pipe' = [pipe EXCEPT ![o] = Append(@, line)]
    /\ written' = [written EXCEPT ![o] = Written(@, line)]
    /\ emitted' = emitted + 1
    /\ UNCHANGED <<sessions, files, nobj, sessionVars2, subscribers, eventCounter, buffer,
                   proc, conn, recv, appended, loaded, hist, ret, sent,
                   listed, timeVars, called>>

\* A line reader that takes the newest line of the pipe.
NextIndexNewest(p) == Len(p)

\* The line reader takes the lines of the pipe in the order they were written.
NextIndex(p) == 1

Without(p, i) == [j \in 1..(Len(p) - 1) |-> IF j < i THEN p[j] ELSE p[j + 1]]

\* The line reader reads the next line of the pipe and calls the handler.
Read(o) ==
    /\ pipe[o] # <<>>
    /\ OnLine(o, pipe[o][NextIndex(pipe[o])])
    /\ pipe' = [pipe EXCEPT ![o] = Without(@, NextIndex(pipe[o]))]
    /\ UNCHANGED <<emitted, written>>

\* proc.stderr.on('data'): the listener is never removed, and the pipe may
\* deliver data after the exit event.
StderrData(o) ==
    /\ o <= nobj /\ proc[o].spawned
    /\ emitted' = emitted + 1
    /\ Commit(o, PushEvent(Store(o), "message", StderrMessage))
    /\ UNCHANGED <<sessions, nobj, sessionVars2, proc, conn, loaded, hist,
                   pipeVars, ret, sent,
                   listed, timeVars>>

\* A destroy() that sends SIGKILL however its wait ended.
KillsAlways(exited, hasProcess) == TRUE

\* if (!exited && this.process) this.process.kill('SIGKILL')
Kills(exited, hasProcess) == ~exited /\ hasProcess

\* A release that does not look whether the resource is still held.
ReleaseAgain(held, n) == n + 1

\* this.stdoutRl?.close(), this.jsonlStream?.end(): the number of releases of a
\* resource after one more, which only happens if it is still held.
Release(held, n) == IF held THEN n + 1 ELSE n

\* A deletion that leaves the file where it is.
unlinkSyncNever(dir, sid) == dir

\* fs.unlinkSync(jsonlPath), which throws if there is no file; the callers catch.
unlinkSync(dir, sid) == [dir EXCEPT ![sid] = NoFile]

\* A continuation that only runs when the oldest destroy() came from
\* destroySession.
DeletedByOldest(callers) == callers # <<>> /\ Head(callers) = "destroySession"

\* The continuation of destroySession after `await session.destroy()`, when one
\* of the resolved destroy() calls came from destroySession.
Deleted(callers) == \E i \in 1..Len(callers) : callers[i] = "destroySession"

\* A handler that reports the end of the process but not the Dead status.
TerminalOnly(S, event, data) == PushEvent(S, event, data)

\* pushEvent(event, ...); pushEvent('status', { status: 'dead' }) of the exit and
\* error handlers.
Terminal(S, event, data) ==
    PushEvent(PushEvent(S, event, data), "status", [status |-> "dead"])

\* proc.on('exit'): the handler attach registered runs first, then the listener
\* of every destroy() still waiting, whose continuation follows in the same tick.
ProcExit(o) ==
    /\ o <= nobj /\ proc[o].spawned /\ ~proc[o].exited
    /\ LET S == Terminal(Store(o), "exit", [code |-> 0])
           gone == Deleted(pending[o])
       IN  /\ CommitLog(o, S)
           /\ files' = IF gone THEN unlinkSync(files, objId[o])
                       ELSE [files EXCEPT ![objId[o]].lines = S.lines]
           /\ sessions' = IF gone THEN [sessions EXCEPT ![objId[o]] = NoObj]
                          ELSE sessions
    /\ proc' = [proc EXCEPT
                   ![o].exited = TRUE,
                   ![o].sigkill = @ \/ (pending[o] # <<>> /\ Kills(TRUE, FALSE)),
                   ![o].closes = Release(stdoutRl[o], @),
                   ![o].ends = IF pending[o] # <<>> THEN Release(jsonlStream[o], @)
                               ELSE @]
    /\ status' = [status EXCEPT ![o] = "dead"]
    /\ stdoutRl' = [stdoutRl EXCEPT ![o] = FALSE]
    /\ process' = [process EXCEPT ![o] = FALSE]
    /\ jsonlStream' = IF pending[o] # <<>> THEN [jsonlStream EXCEPT ![o] = FALSE]
                      ELSE jsonlStream
    /\ pending' = [pending EXCEPT ![o] = <<>>]
    /\ UNCHANGED <<nobj, objId, totalCostUsd, cliSessionId,
                   emitted, conn, loaded, hist,
                   pipeVars, ret, sent,
                   listed, timeVars>>

\* proc.on('error'): a spawn or kill failure. The exit event may still follow.
ProcError(o) ==
    /\ o <= nobj /\ proc[o].spawned /\ ~proc[o].exited /\ ~proc[o].errored
    /\ Commit(o, Terminal(Store(o), "error", [message |-> "err"]))
    /\ proc' = [proc EXCEPT ![o].errored = TRUE]
    /\ status' = [status EXCEPT ![o] = "dead"]
    /\ UNCHANGED <<sessions, nobj, objId, process, stdoutRl,
                   jsonlStream, totalCostUsd, cliSessionId, pending,
                   emitted, conn, loaded, hist,
                   pipeVars, ret, sent,
                   listed, timeVars>>

\* A timer whose callback resolves nothing.
ResolvedNever(p) == p

\* setTimeout(() => resolve(false), 5000): the destroy() calls that still wait
\* once the timer of the oldest has fired.
Resolved(p) == Tail(p)

\* The 5 s timer of the oldest waiting destroy() fires before the exit event:
\* resolve(false), then the rest of destroy().
TimerFire(o) ==
    /\ o <= nobj /\ pending[o] # <<>>
    /\ proc' = [proc EXCEPT
                   ![o].sigkill = @ \/ Kills(FALSE, process[o]),
                   ![o].closes = Release(stdoutRl[o], @),
                   ![o].ends = Release(jsonlStream[o], @)]
    /\ status' = [status EXCEPT ![o] = "dead"]
    /\ stdoutRl' = [stdoutRl EXCEPT ![o] = FALSE]
    /\ jsonlStream' = [jsonlStream EXCEPT ![o] = FALSE]
    /\ process' = [process EXCEPT ![o] = FALSE]
    /\ pending' = [pending EXCEPT ![o] = Resolved(@)]
    /\ IF Head(pending[o]) = "destroySession"
       THEN /\ sessions' = [sessions EXCEPT ![objId[o]] = NoObj]
            /\ files' = unlinkSync(files, objId[o])
       ELSE UNCHANGED <<sessions, files>>
    /\ UNCHANGED <<nobj, objId, eventCounter, buffer, subscribers, totalCostUsd,
                   cliSessionId, emitted, conn, recv, appended, loaded, hist,
                   pipeVars, ret, sent,
                   listed, timeVars, called>>

(* --------------------------- SessionManager ---------------------------- *)

\* What a call of `op` for session id `sid` leaves in `ret`: the Session it
\* returns, or the message of the Error it throws.
Returned(op, sid, o) == [op |-> op, id |-> sid, obj |-> o, error |-> "none"]
Thrown(op, sid, error) == [op |-> op, id |-> sid, obj |-> NoObj, error |-> error]

\* The call waits for the destroy() of Session o.
Awaits(op, sid, o) == [op |-> op, id |-> sid, obj |-> o, error |-> "pending"]

\* A resumeSession without its early return.
AliveNever(reg, sid) == FALSE

\* existing && existing.status !== 'dead'
Alive(reg, sid) == reg[sid] # NoObj /\ status[reg[sid]] # "dead"

\* A count of the sessions that are in a turn.
activeCountBusy(reg) ==
    Cardinality({id \in AllIDs : reg[id] # NoObj /\ status[reg[id]] = "busy"})

\* get activeCount()
activeCount(reg) ==
    Cardinality({id \in AllIDs : reg[id] # NoObj /\ status[reg[id]] # "dead"})

InitializeRequest == "initialize"

\* new Session(...); [loadBufferFromFile;] spawn; attach(proc); sessions.set;
\* sendStreamJsonMessage(initialize): the part createSession and resumeSession
\* share, for the new Session o of id `sid` whose log starts as `ld`: as loaded
\* from `lines` by resumeSession, or empty (and `lines` too) in createSession,
\* which writes the metadata line. `cli` is the argument of --resume, if any.
Start(o, sid, ld, lines, cli) ==
    LET S == PushEvent([counter |-> ld.counter, buffer |-> ld.buffer,
                        stream |-> TRUE,
                        lines |-> IF lines = <<>> THEN <<MetaLine>> ELSE lines,
                        subs |-> <<>>,
                        rc |-> recv, calls |-> called, app |-> <<>>],
                       "status", [status |-> "ready"])
    IN  /\ nobj' = o
        /\ objId' = [objId EXCEPT ![o] = sid]
        /\ CommitLog(o, S)
        /\ files' = [files EXCEPT ![sid] = [exists |-> TRUE, lines |-> S.lines]]
        /\ loaded' = [loaded EXCEPT ![o] = [resumed |-> Len(lines) > 0,
                                            counter |-> ld.counter,
                                            buffer |-> ld.buffer, lines |-> lines]]
        /\ status' = [status EXCEPT ![o] = "ready"]
        /\ process' = [process EXCEPT ![o] = TRUE]
        /\ stdoutRl' = [stdoutRl EXCEPT ![o] = TRUE]
        /\ jsonlStream' = [jsonlStream EXCEPT ![o] = TRUE]
        /\ proc' = [proc EXCEPT ![o] =
                       [NoProc EXCEPT
                          !.spawned = TRUE,
                          !.resume = cli,
                          !.stdin = IF CanSend(TRUE, "ready")
                                    THEN StdinWrite(<<>>, InitializeRequest)
                                    ELSE <<>>]]
        /\ sessions' = [sessions EXCEPT ![sid] = o]
        /\ lastActiveAt' = [lastActiveAt EXCEPT ![o] = now]
        /\ UNCHANGED <<totalCostUsd, cliSessionId, pending, emitted,
                       conn, hist,
                   pipeVars, sent,
                       listed, now, sessionTimeoutSec, capacity>>

\* The id is a fresh random one: no Session and no file carries it.
createSession(sid) ==
    /\ nobj < MaxObj
    /\ \A o \in 1..nobj : objId[o] # sid
    /\ ~files[sid].exists
    /\ IF activeCount(sessions) >= maxSessions
       THEN /\ ret' = Thrown("createSession", sid, "Max sessions reached")
            /\ UNCHANGED varsButRet
       ELSE /\ Start(nobj + 1, sid, [counter |-> 0, buffer |-> <<>>], <<>>,
                     Undefined)
            /\ ret' = Returned("createSession", sid, nobj + 1)

resumeSession(sid) ==
    LET existing == sessions[sid]
        cli == MetaCliSessionId(files[sid].lines, 1, Undefined)
        removed == [sessions EXCEPT ![sid] = NoObj]
        \* throw new Error(...)
        Fail(reg, error) ==
            /\ sessions' = reg
            /\ ret' = Thrown("resumeSession", sid, error)
            /\ UNCHANGED <<files, nobj, sessionVars2, subscribers, eventCounter, buffer, proc,
                           emitted, conn, recv, appended, loaded, hist,
                           pipeVars, sent,
                           listed, timeVars, called>>
    IN  IF Alive(sessions, sid)
        THEN /\ ret' = Returned("resumeSession", sid, existing)
             /\ UNCHANGED varsButRet
        ELSE IF ~files[sid].exists THEN Fail(sessions, "No history file found")
        ELSE IF cli = Undefined THEN Fail(sessions, "No CLI session_id found")
        ELSE IF activeCount(removed) >= maxSessions
             THEN Fail(removed, "Max sessions reached")
        ELSE /\ nobj < MaxObj
             /\ Start(nobj + 1, sid, loadBufferFromFile(files[sid].lines),
                      files[sid].lines, cli)
             /\ ret' = Returned("resumeSession", sid, nobj + 1)

\* What destroySession(sid) does to the sessions, the registry and the files,
\* while fewer than `max` destroy() calls wait on the session.
destroySessionUpTo(sid, max) ==
    LET o == sessions[sid]
    IN  IF o = NoObj
        THEN /\ files' = IF files[sid].exists THEN unlinkSync(files, sid) ELSE files
             /\ UNCHANGED <<sessions, nobj, sessionVars2, subscribers, eventCounter, buffer,
                            proc, emitted, conn, recv, appended, loaded, hist,
                            pipeVars, sent, listed, timeVars, called>>
        ELSE IF ~process[o] \/ status[o] = "dead"
        THEN /\ status' = [status EXCEPT ![o] = "dead"]
             /\ sessions' = [sessions EXCEPT ![sid] = NoObj]
             /\ files' = unlinkSync(files, sid)
             /\ UNCHANGED <<nobj, objId, subscribers, process, stdoutRl,
                            jsonlStream, totalCostUsd, cliSessionId, pending,
                            eventCounter, buffer, proc, emitted, conn, recv,
                            appended, loaded, hist,
                            pipeVars, sent, listed, timeVars, called>>
        ELSE /\ Len(pending[o]) < max
             /\ pending' = [pending EXCEPT ![o] = Append(@, "destroySession")]
             /\ proc' = [proc EXCEPT ![o].sigterm = TRUE]
             /\ UNCHANGED <<sessions, files, nobj, objId, status, subscribers,
                            process, stdoutRl, jsonlStream, totalCostUsd,
                            cliSessionId, eventCounter, buffer, emitted,
                            conn, recv, appended, loaded, hist,
                            pipeVars, sent, listed, timeVars, called>>

destroySessionEffect(sid) == destroySessionUpTo(sid, MaxPending)

\* How the call ends for its caller: it throws, it returns, or it waits for the
\* destroy() of the session.
destroySessionOutcome(sid) ==
    LET o == sessions[sid]
    IN  IF o = NoObj
        THEN IF files[sid].exists THEN Returned("destroySession", sid, NoObj)
             ELSE Thrown("destroySession", sid, "Session not found")
        ELSE IF ~process[o] \/ status[o] = "dead"
        THEN Returned("destroySession", sid, o)
        ELSE Awaits("destroySession", sid, o)

\* destroySession(sid) of a caller that drops the promise ...
destroySession(sid) == destroySessionEffect(sid) /\ UNCHANGED ret

\* ... and of one that keeps it.
destroySessionCall(sid) ==
    destroySessionEffect(sid) /\ ret' = destroySessionOutcome(sid)

\* ... possibly while another destroy() of the session waits.
destroySessionOverlapping(sid) ==
    destroySessionUpTo(sid, MaxDestroys) /\ ret' = destroySessionOutcome(sid)

\* cleanupStale: session.destroy(), up to its await, on every non-dead session
\* of the registry that `stale` holds: the sessions whose lastActiveAt lies more
\* than the (positive) config.sessionTimeoutSec before now.
cleanupStaleUpTo(stale, max) ==
    LET Hit(o) == /\ o \in stale /\ o <= nobj /\ sessions[objId[o]] = o
                  /\ status[o] # "dead"
    IN  /\ \E o \in Objs : Hit(o)
        /\ \A o \in Objs : Hit(o) /\ process[o] => Len(pending[o]) < max
        /\ status' = [o \in Objs |-> IF Hit(o) /\ ~process[o] THEN "dead"
                                     ELSE status[o]]
        /\ pending' = [o \in Objs |-> IF Hit(o) /\ process[o]
                                      THEN Append(pending[o], "sweep")
                                      ELSE pending[o]]
        /\ proc' = [o \in Objs |-> IF Hit(o) /\ process[o]
                                   THEN [proc[o] EXCEPT !.sigterm = TRUE]
                                   ELSE proc[o]]
        /\ UNCHANGED <<sessions, files, nobj, objId, subscribers, process,
                       stdoutRl, jsonlStream, totalCostUsd, cliSessionId,
                       eventCounter, buffer, emitted, conn, recv, appended,
                       loaded, hist,
                   pipeVars, ret, sent,
                       listed, timeVars, called>>

cleanupStale(stale) == cleanupStaleUpTo(stale, MaxPending)

\* destroyAll: session.destroy(), up to its await, on every session of the
\* registry; a destroy() of a Dead session returns at once.
destroyAll ==
    LET Hit(o) == o <= nobj /\ sessions[objId[o]] = o
        Waits(o) == Hit(o) /\ process[o] /\ status[o] # "dead"
    IN  /\ \E o \in Objs : Hit(o)
        /\ \A o \in Objs : Waits(o) => Len(pending[o]) < MaxDestroys
        /\ status' = [o \in Objs |-> IF Hit(o) /\ ~Waits(o) THEN "dead"
                                     ELSE status[o]]
        /\ pending' = [o \in Objs |-> IF Waits(o)
                                      THEN Append(pending[o], "destroyAll")
                                      ELSE pending[o]]
        /\ proc' = [o \in Objs |-> IF Waits(o)
                                   THEN [proc[o] EXCEPT !.sigterm = TRUE]
                                   ELSE proc[o]]
        /\ UNCHANGED <<sessions, files, nobj, objId, subscribers, process,
                       stdoutRl, jsonlStream, totalCostUsd, cliSessionId,
                       eventCounter, buffer, emitted, conn, recv, appended,
                       loaded, hist, pipeVars, ret, sent, listed, timeVars, called>>

\* A test that also holds at the timeout itself.
InactiveFrom(t, last, timeout) == timeout > 0 /\ t - last >= timeout

\* this.config.sessionTimeoutSec > 0 && now - session.lastActiveAt >
\* this.config.sessionTimeoutSec
Inactive(t, last, timeout) == timeout > 0 /\ t - last > timeout

\* The run of cleanupStale that the interval timer starts.
Sweep ==
    cleanupStale({o \in 1..nobj :
                     Inactive(now, lastActiveAt[o], sessionTimeoutSec)})

\* A second passes.
Tick ==
    /\ now < MaxNow
    /\ now' = now + 1
    /\ UNCHANGED <<sessions, files, nobj, sessionVars2, subscribers, eventCounter, buffer,
                   proc, emitted, conn, recv, appended, loaded, hist,
                   pipeVars, ret, sent, listed, lastActiveAt,
                   sessionTimeoutSec, capacity, called>>

\* toSummaryJSON() and the summary of a file, as far as id and status.
Summary(id, st) == [id |-> id, status |-> st]

\* A listing that adds a summary for every file, listed already or not.
listSessionsEveryFile(reg, dir) ==
    {Summary(objId[reg[k]], status[reg[k]]) : k \in {i \in AllIDs : reg[i] # NoObj}}
    \cup {Summary(f, "dead") : f \in {i \in AllIDs : dir[i].exists}}

\* listSessions(): the summaries of the sessions of the registry, keyed by
\* Session.id, then a Dead summary for every file whose id is not a key yet.
listSessions(reg, dir) ==
    LET live == {Summary(objId[reg[k]], status[reg[k]]) :
                    k \in {i \in AllIDs : reg[i] # NoObj}}
        has == {r.id : r \in live}
    IN  live \cup {Summary(f, "dead") :
                     f \in {i \in AllIDs : dir[i].exists /\ i \notin has}}

ListSessions ==
    /\ listed' = listSessions(sessions, files)
    /\ UNCHANGED <<sessions, files, nobj, sessionVars2, subscribers, eventCounter, buffer,
                   proc, emitted, conn, recv, appended, loaded, hist,
                   pipeVars, ret, sent, timeVars, called>>

(* ------------------------------ SSE clients ---------------------------- *)

\* Whether some sequence number in k+1..eventCounter is no longer in the buffer.
Evicted(o, k) ==
    \E n \in (k + 1)..eventCounter[o] :
        \A i \in 1..Len(buffer[o]) : buffer[o][i].id # n

\* The stream endpoint, for a client whose last seen sequence number is k: the
\* buffered envelopes numbered above k are sent and the client is subscribed,
\* in one step.
Connect(c, sid) ==
    LET o == sessions[sid]
    IN  /\ o # NoObj /\ conn[c].obj = NoObj
        /\ \E k \in 0..eventCounter[o] :
              /\ conn' = [conn EXCEPT ![c] = [obj |-> o, k |-> k,
                                              gap |-> Evicted(o, k)]]
              /\ recv' = [recv EXCEPT ![c] =
                            SelectSeq(getHistory(buffer[o], Len(buffer[o])),
                                      LAMBDA e : e.id > k)]
        /\ subscribers' = [subscribers EXCEPT ![o] = subscribe(@, c)]
        /\ UNCHANGED <<sessions, files, nobj, objId, status, process, stdoutRl,
                       jsonlStream, totalCostUsd, cliSessionId, pending,
                       eventCounter, buffer, proc, emitted, appended, loaded, hist,
                   pipeVars, ret, sent,
                       listed, timeVars, called>>

\* The client closes the stream: the endpoint unsubscribes its callback.
Disconnect(c) ==
    /\ conn[c].obj # NoObj
    /\ subscribers' = [subscribers EXCEPT ![conn[c].obj] = unsubscribe(@, c)]
    /\ conn' = [conn EXCEPT ![c] = NoConn]
    /\ recv' = [recv EXCEPT ![c] = <<>>]
    /\ UNCHANGED <<sessions, files, nobj, objId, status, process, stdoutRl,
                   jsonlStream, totalCostUsd, cliSessionId, pending,
                   eventCounter, buffer, proc, emitted, appended, loaded, hist,
                   pipeVars, ret, sent,
                   listed, timeVars, called>>

NoRet == [op |-> "none", id |-> Undefined, obj |-> NoObj, error |-> "none"]

NoSent == [n |-> 0, op |-> "none", obj |-> NoObj, text |-> Undefined,
           val |-> FALSE]

\* session.subscribe(fn) of a caller, for a listener.
Subscribe(o, fn) ==
    /\ o <= nobj
    /\ subscribers' = [subscribers EXCEPT ![o] = subscribe(@, fn)]
    /\ UNCHANGED <<sessions, files, nobj, sessionVars2, eventCounter, buffer,
                   proc, emitted, conn, recv, appended, loaded, hist,
                   pipeVars, ret, sent, listed, timeVars, called>>

\* No listSessions call yet.
NoListed == {[id |-> Undefined, status |-> "none"]}

NoHist == [obj |-> NoObj, lines |-> 0, buffer |-> <<>>, result |-> <<>>]

\* session.getHistory(lines)
GetHistory(o, lines) ==
    /\ o <= nobj
    /\ hist' = [obj |-> o, lines |-> lines, buffer |-> buffer[o],
                result |-> getHistory(buffer[o], lines)]
    /\ UNCHANGED <<sessions, files, nobj, sessionVars2, subscribers, eventCounter, buffer,
                   proc, emitted, conn, recv, appended, loaded,
                   pipeVars, ret, sent,
                   listed, timeVars, called>>

(* ---------------------------- specifications --------------------------- *)

NoLoad == [resumed |-> FALSE, counter |-> 0, buffer |-> <<>>, lines |-> <<>>]

InitSessions ==
    /\ objId = [o \in Objs |-> Undefined]
    /\ status = [o \in Objs |-> "starting"]
    /\ eventCounter = [o \in Objs |-> 0]
    /\ buffer = [o \in Objs |-> <<>>]
    /\ subscribers = [o \in Objs |-> <<>>]
    /\ process = [o \in Objs |-> FALSE]
    /\ stdoutRl = [o \in Objs |-> FALSE]
    /\ jsonlStream = [o \in Objs |-> FALSE]
    /\ totalCostUsd = [o \in Objs |-> 0]
    /\ cliSessionId = [o \in Objs |-> Undefined]
    /\ pending = [o \in Objs |-> <<>>]
    /\ proc = [o \in Objs |-> NoProc]
    /\ appended = [o \in Objs |-> <<>>]
    /\ loaded = [o \in Objs |-> NoLoad]
    /\ emitted = 0
    /\ pipe = [o \in Objs |-> <<>>]
    /\ written = [o \in Objs |-> <<>>]
    /\ ret = NoRet
    /\ sent = NoSent
    /\ conn = [c \in Clients |-> NoConn]
    /\ recv = [c \in Callbacks |-> <<>>]
    /\ called = <<>>
    /\ hist = NoHist
    /\ listed = NoListed
    /\ now = 0
    /\ lastActiveAt = [o \in Objs |-> 0]

\* A new SessionManager over an empty sessions directory.
Init ==
    /\ InitSessions
    /\ sessionTimeoutSec = Timeout
    /\ capacity = bufferSize
    /\ nobj = 0
    /\ sessions = [id \in AllIDs |-> NoObj]
    /\ files = [id \in AllIDs |-> NoFile]

\* What the manager's callers and the timers do.
Manager ==
    \/ \E sid \in IDs : createSession(sid)
    \/ \E sid \in IDs : resumeSession(sid)
    \/ \E sid \in IDs : destroySession(sid)
    \/ \E stale \in SUBSET Objs : cleanupStale(stale)
    \/ \E o \in Objs : TimerFire(o)

\* What the child processes do, emitting at most `max` lines and chunks.
Processes(lines, max) ==
    \/ \E o \in Objs, line \in lines : emitted < max /\ StdoutLine(o, line)
    \/ \E o \in Objs : emitted < max /\ StderrData(o)
    \/ \E o \in Objs : ProcExit(o)
    \/ \E o \in Objs : ProcError(o)

StreamClients ==
    \/ \E c \in Clients, sid \in IDs : Connect(c, sid)
    \/ \E c \in Clients : Disconnect(c)

\* The lifecycle of the sessions of one manager.
Next == Manager \/ Processes(CoreLines, MaxOutput)

Spec == Init /\ [][Next]_vars

\* One session from createSession to its death ...
Single ==
    \/ \E sid \in IDs : nobj = 0 /\ createSession(sid)
    \/ \E sid \in IDs : destroySession(sid)
    \/ \E stale \in SUBSET Objs : cleanupStale(stale)
    \/ \E o \in Objs : TimerFire(o)

\* ... with every kind of stdout line ...
NextSession == Single \/ Processes(AllLines, MaxLines)

SpecSession == Init /\ [][NextSession]_vars

\* ... and with SSE clients.
NextStream == Single \/ Processes(AllLines, MaxStreamOutput) \/ StreamClients

SpecStream == Init /\ [][NextStream]_vars

\* ... and with history reads.
NextHistory ==
    \/ Single
    \/ Processes(AllLines, MaxStreamOutput)
    \/ \E o \in Objs, lines \in 0..MaxHistory : GetHistory(o, lines)

SpecHistory == Init /\ [][NextHistory]_vars

\* The registry of one manager over two session ids: the operations that read or
\* write SessionManager.sessions, with processes that report their CLI session
\* id and exit.
NextRegistry ==
    \/ \E sid \in AllIDs : createSession(sid)
    \/ \E sid \in AllIDs : resumeSession(sid)
    \/ \E sid \in AllIDs : destroySession(sid)
    \/ \E o \in Objs : TimerFire(o)
    \/ \E o \in Objs, line \in CoreLines :
          emitted < MaxStreamOutput /\ StdoutLine(o, line)
    \/ \E o \in Objs : ProcExit(o)

SpecRegistry == Init /\ [][NextRegistry]_vars

\* What the callers of a Session send.
Callers ==
    \/ \E o \in Objs : sendInput(o, UserText)
    \/ \E o \in Objs : sendStreamJsonMessage(o, ControlResponse)
    \/ \E o \in Objs : sendInterrupt(o)

\* One session and its first resumption, with callers that send input.
NextInput ==
    \/ \E sid \in IDs : nobj = 0 /\ createSession(sid)
    \/ \E sid \in IDs : nobj = 1 /\ resumeSession(sid)
    \/ Processes(CoreLines, MaxStreamOutput)
    \/ Callers

SpecInput == Init /\ [][NextInput]_vars

\* The lines the specification with a stdout pipe draws from.
PipeLines == {EmptyLine, RawLine, JsonLine(MAssistant), JsonLine(MResultTotal(2))}

\* One session whose process writes to a pipe the line reader reads later, with
\* SSE clients.
NextPipe ==
    \/ Single
    \/ \E o \in Objs, line \in PipeLines : emitted < MaxOutput /\ Write(o, line)
    \/ \E o \in Objs : Read(o)
    \/ \E o \in Objs : emitted < MaxOutput /\ StderrData(o)
    \/ \E o \in Objs : ProcExit(o)
    \/ \E o \in Objs : ProcError(o)
    \/ StreamClients

SpecPipe == Init /\ [][NextPipe]_vars

\* Line i of a durable file left by an earlier run of the server: an envelope
\* numbered i, an envelope with a number used before, or a line that does not
\* parse.
FoundLines(i) ==
    {Stringify(Envelope(i, "message", MInit)),
     Stringify(Envelope(1, "status", [status |-> "dead"])),
     Malformed}

FoundFiles ==
    UNION {{<<MetaLine>> \o rest : rest \in
              {f \in [1..n -> UNION {FoundLines(i) : i \in 1..n}] :
                  \A i \in 1..n : f[i] \in FoundLines(i)}} : n \in 0..MaxFileLines}

\* A new SessionManager over a sessions directory holding such a file.
InitLoad ==
    /\ InitSessions
    /\ sessionTimeoutSec = Timeout
    /\ capacity = bufferSize
    /\ nobj = 0
    /\ sessions = [id \in AllIDs |-> NoObj]
    /\ \E lines \in FoundFiles :
          files = [id \in AllIDs |-> IF id \in IDs
                                    THEN [exists |-> TRUE, lines |-> lines]
                                    ELSE NoFile]

\* The session of the file is resumed once.
NextLoad ==
    \/ \E sid \in IDs : nobj = 0 /\ resumeSession(sid)
    \/ Processes({RawLine}, MaxStreamOutput)

SpecLoad == InitLoad /\ [][NextLoad]_vars

\* The session of the file is resumed, and resumed again after its process
\* reported its CLI session id or exited.
NextResume ==
    \/ \E sid \in IDs : nobj < MaxObj - 1 /\ resumeSession(sid)
    \/ \E o \in Objs, line \in CoreLines :
          emitted < MaxStreamOutput /\ StdoutLine(o, line)
    \/ \E o \in Objs : ProcExit(o)

SpecResume == InitLoad /\ [][NextResume]_vars

\* The files a sessions directory may hold for one id when the manager starts.
ListFiles == {<<MetaLine>>,
              <<MetaLine, Stringify(Envelope(1, "message", MInit))>>}

\* A new SessionManager over a sessions directory that may hold such files.
InitList ==
    /\ InitSessions
    /\ sessionTimeoutSec = Timeout
    /\ capacity = bufferSize
    /\ nobj = 0
    /\ sessions = [id \in AllIDs |-> NoObj]
    /\ \E found \in SUBSET AllIDs, lines \in ListFiles :
          files = [id \in AllIDs |-> IF id \in found
                                      THEN [exists |-> TRUE, lines |-> lines]
                                      ELSE NoFile]

\* The registry and the sessions directory, and a caller that lists them.
NextList ==
    \/ \E sid \in AllIDs : createSession(sid)
    \/ \E sid \in AllIDs : resumeSession(sid)
    \/ \E sid \in AllIDs : destroySession(sid)
    \/ \E o \in Objs : TimerFire(o)
    \/ \E o \in Objs : ProcExit(o)
    \/ ListSessions

SpecList == InitList /\ [][NextList]_vars

\* The registry and the sessions directory, and callers that destroy sessions
\* and wait for the outcome.
NextDestroy ==
    \/ \E sid \in AllIDs : createSession(sid)
    \/ \E sid \in AllIDs : resumeSession(sid)
    \/ \E sid \in AllIDs : destroySessionCall(sid)
    \/ \E o \in Objs : TimerFire(o)
    \/ \E o \in Objs, line \in CoreLines :
          emitted < MaxStreamOutput /\ StdoutLine(o, line)
    \/ \E o \in Objs : ProcExit(o)

SpecDestroy == InitList /\ [][NextDestroy]_vars

\* A new SessionManager whose configured timeout is positive, zero or negative.
InitSweep ==
    /\ InitSessions
    /\ sessionTimeoutSec \in {0 - Timeout, 0, Timeout}
    /\ capacity = bufferSize
    /\ nobj = 0
    /\ sessions = [id \in AllIDs |-> NoObj]
    /\ files = [id \in AllIDs |-> NoFile]

\* Sessions that are created, report their CLI session id, are swept when they
\* were inactive for too long, and are resumed.
NextSweep ==
    \/ \E sid \in IDs : createSession(sid)
    \/ \E sid \in IDs : resumeSession(sid)
    \/ Sweep
    \/ Tick
    \/ \E o \in Objs : TimerFire(o)
    \/ \E o \in Objs, line \in CoreLines :
          emitted < MaxStreamOutput /\ StdoutLine(o, line)
    \/ \E o \in Objs : ProcExit(o)

\* The grace timer of a destroy() that waits fires unless the process exits.
SpecSweep ==
    InitSweep /\ [][NextSweep]_vars /\ \A o \in Objs : WF_vars(TimerFire(o))

\* Sessions of two ids and a shutdown that calls destroyAll, possibly again
\* while the destroy() calls of the first wait or after they resolved.
NextDestroyAll ==
    \/ \E sid \in AllIDs : nobj < MaxObj - 1 /\ createSession(sid)
    \/ destroyAll
    \/ \E o \in Objs : TimerFire(o)
    \/ Processes(CoreLines, MaxStreamOutput)

\* The grace timer of a destroy() that waits fires unless the process exits;
\* the process need not exit.
SpecDestroyAll ==
    Init /\ [][NextDestroyAll]_vars /\ \A o \in Objs : WF_vars(TimerFire(o))

\* The lines the process of a session with listeners prints.
ListenerLines == {RawLine, JsonLine(MAssistant)}

\* One session whose callers register listeners while its process prints lines
\* and exits.
NextListeners ==
    \/ \E sid \in IDs : nobj = 0 /\ createSession(sid)
    \/ \E o \in Objs, fn \in Subscribing : Subscribe(o, fn)
    \/ \E o \in Objs, line \in ListenerLines :
          emitted < MaxOutput /\ StdoutLine(o, line)
    \/ \E o \in Objs : ProcExit(o)

SpecListeners == Init /\ [][NextListeners]_vars

\* The files a sessions directory may hold for the id when the manager starts:
\* a short one, and one of more envelopes than the buffer holds.
BufferFiles ==
    {<<MetaLine, Stringify(Envelope(1, "message", MInit))>>,
     <<MetaLine>> \o [i \in 1..MaxFileLines |->
                        Stringify(Envelope(i, "message", MInit))]}

\* A new SessionManager whose sessions have a buffer of one entry or of
\* bufferSize entries, over a sessions directory that may hold such a file.
InitBuffer ==
    /\ InitSessions
    /\ sessionTimeoutSec = Timeout
    /\ capacity \in {1, bufferSize}
    /\ nobj = 0
    /\ sessions = [id \in AllIDs |-> NoObj]
    /\ \E found \in {NoFile} \cup {[exists |-> TRUE, lines |-> lines] :
                                     lines \in BufferFiles} :
          files = [id \in AllIDs |-> IF id \in IDs THEN found ELSE NoFile]

\* One session, created or resumed, with a listener, whose process prints lines
\* and exits.
NextBuffer ==
    \/ \E sid \in IDs : nobj = 0 /\ createSession(sid)
    \/ \E sid \in IDs : nobj = 0 /\ resumeSession(sid)
    \/ \E o \in Objs : Subscribe(o, "plain")
    \/ \E o \in Objs, line \in ListenerLines :
          emitted < MaxOutput /\ StdoutLine(o, line)
    \/ \E o \in Objs : ProcExit(o)

SpecBuffer == InitBuffer /\ [][NextBuffer]_vars

\* One session whose callers register listeners that unsubscribe while its
\* process prints lines and exits.
NextUnsubscribe ==
    \/ \E sid \in IDs : nobj = 0 /\ createSession(sid)
    \/ \E o \in Objs, fn \in Unsubscribing : Subscribe(o, fn)
    \/ \E o \in Objs, line \in ListenerLines :
          emitted < MaxOutput /\ StdoutLine(o, line)
    \/ \E o \in Objs : ProcExit(o)

SpecUnsubscribe == Init /\ [][NextUnsubscribe]_vars

\* One session, resumed once, with destroySession calls and sweeps that overlap:
\* a destroy() starts while another one waits.
NextOverlap ==
    \/ \E sid \in IDs : nobj = 0 /\ createSession(sid)
    \/ \E sid \in IDs : nobj < MaxObj - 1 /\ resumeSession(sid)
    \/ \E sid \in IDs : destroySessionOverlapping(sid)
    \/ \E stale \in SUBSET Objs : cleanupStaleUpTo(stale, MaxDestroys)
    \/ \E o \in Objs : TimerFire(o)
    \/ \E o \in Objs, line \in CoreLines :
          emitted < MaxStreamOutput /\ StdoutLine(o, line)
    \/ \E o \in Objs : ProcExit(o)

\* The grace timer of a destroy() that waits fires unless the process exits.
SpecOverlap ==
    Init /\ [][NextOverlap]_vars /\ \A o \in Objs : WF_vars(TimerFire(o))

\* The lifecycle with SSE clients.
NextReplay == Manager \/ Processes(CoreLines, MaxStreamOutput) \/ StreamClients

SpecReplay == Init /\ [][NextReplay]_vars

(* ------------------------------- Event Log ----------------------------- *)

Last(seq) == seq[Len(seq)]

\* The last n elements of seq, all of it when it has fewer.
Suffix(seq, n) ==
    IF n >= Len(seq) THEN seq ELSE SubSeq(seq, Len(seq) - n + 1, Len(seq))

\* C1: the k-th envelope a Session object appends carries the number k above the
\* counter it was constructed with, which is 0 for a created session: the numbers
\* of a fresh log are 1, 2, 3, ... however appends and subscriber changes
\* interleave.
C1_Gapless ==
    \A o \in Objs :
        /\ ~loaded[o].resumed => loaded[o].counter = 0
        /\ \A k \in 1..Len(appended[o]) :
              appended[o][k].id = loaded[o].counter + k

\* C1: a created session has appended three envelopes or more, the last of them
\* while a client was subscribed.
C1_Witness ==
    \E o \in Objs, c \in Clients :
        /\ ~loaded[o].resumed /\ Len(appended[o]) >= 3
        /\ conn[c].obj = o /\ recv[c] # <<>>
        /\ Last(recv[c]) = Last(appended[o])

\* C2: a client that connected with last seen number k, none of the numbers
\* above k being evicted at that time, has been sent every envelope numbered
\* above k once, in ascending order, and none numbered k or below.
C2_ReplayExactlyOnce ==
    \A c \in Clients :
        conn[c].obj # NoObj /\ ~conn[c].gap =>
            /\ Len(recv[c]) = eventCounter[conn[c].obj] - conn[c].k
            /\ \A i \in 1..Len(recv[c]) : recv[c][i].id = conn[c].k + i

\* C3: no two envelopes appended to the log of one session id carry the same
\* number, whichever Session objects appended them.
C3_NumbersNeverReused ==
    \A o1 \in Objs, o2 \in Objs :
        \A i \in 1..Len(appended[o1]), j \in 1..Len(appended[o2]) :
            objId[o1] = objId[o2] /\ appended[o1][i].id = appended[o2][j].id
                => o1 = o2 /\ i = j

\* The envelopes persisted to a durable file: its lines after the metadata line.
Persisted(lines) == [i \in 1..(Len(lines) - 1) |-> lines[i + 1].val]

\* C4: the buffer a resumed session loads is the last bufferSize envelopes that
\* were appended and persisted, and every entry of it was appended by a Session
\* of that id.
C4_LoadRoundTrip ==
    \A o \in Objs :
        loaded[o].resumed =>
            /\ loaded[o].buffer = Suffix(Persisted(loaded[o].lines), bufferSize)
            /\ \A i \in 1..Len(loaded[o].buffer) :
                  \E p \in Objs : \E j \in 1..Len(appended[p]) :
                      objId[p] = objId[o] /\ appended[p][j] = loaded[o].buffer[i]

\* The numbers of the lines of a file that parse.
ParseableIds(lines) == {lines[i].val.id : i \in {j \in 1..Len(lines) : lines[j].ok}}

Max(S) == CHOOSE x \in S : \A y \in S : y <= x

\* C5: the first envelope appended after a load carries one more than the
\* highest number among the lines of the file that parse, whether or not the
\* buffer was truncated and whether or not lines were skipped.
C5_NextAfterLoad ==
    \A o \in Objs :
        loaded[o].resumed /\ appended[o] # <<>> =>
            appended[o][1].id = 1 + Max(ParseableIds(loaded[o].lines) \cup {0})

\* C5: a session was resumed from a file with a line that does not parse and
\* more parseable lines than the buffer holds, whose highest number is not its
\* last, and has appended.
C5_Witness ==
    \E o \in Objs :
        LET lines == loaded[o].lines
        IN  /\ loaded[o].resumed /\ appended[o] # <<>>
            /\ \E i \in 1..Len(lines) : ~lines[i].ok
            /\ Cardinality({i \in 1..Len(lines) : lines[i].ok}) > bufferSize
            /\ Last(lines).ok /\ Last(lines).val.id < loaded[o].counter

\* C6: getHistory(n) returns the last min(n, length) buffered envelopes in order.
C6_HistoryIsLastN ==
    hist.obj # NoObj =>
        LET m == IF hist.lines < Len(hist.buffer) THEN hist.lines
                 ELSE Len(hist.buffer)
        IN  hist.result = Suffix(hist.buffer, m)

(* ----------------------------- status machine -------------------------- *)

ClaimedEdges ==
    {<<"starting", "ready">>, <<"ready", "busy">>, <<"busy", "ready">>,
     <<"busy", "waiting_for_input">>, <<"waiting_for_input", "busy">>}
    \cup {<<st, "dead">> : st \in {"starting", "ready", "busy", "waiting_for_input"}}

\* C7 as claimed: a status change follows one of the edges Starting->Ready,
\* Ready->Busy, Busy->Ready, Busy->WaitingForInput, WaitingForInput->Busy or
\* any state->Dead.
C7_ClaimedEdgesOnly ==
    [][\A o \in Objs : status'[o] # status[o] =>
          <<status[o], status'[o]>> \in ClaimedEdges]_vars

\* C7: a status change follows one of the claimed edges, or Ready->WaitingForInput,
\* or WaitingForInput->Ready.
C7_EdgesOnly ==
    [][\A o \in Objs : status'[o] # status[o] =>
          <<status[o], status'[o]>> \in
              ClaimedEdges \cup {<<"ready", "waiting_for_input">>,
                                 <<"waiting_for_input", "ready">>}]_vars

\* Envelope e reports status st.
Reports(e, st) == e.event = "status" /\ e.data = [status |-> st]

\* C7: a session went from Ready to WaitingForInput and from there to Ready.
C7_Witness ==
    \E o \in Objs :
        /\ Len(appended[o]) >= 5
        /\ Reports(appended[o][1], "ready")
        /\ Reports(appended[o][2], "waiting_for_input")
        /\ Reports(appended[o][4], "ready")
        /\ status[o] = "ready"

\* C8: a Session object whose status is Dead stays Dead.
C8_DeadIsTerminal ==
    [][\A o \in Objs : status[o] = "dead" => status'[o] = "dead"]_vars

\* C8: a dead session was sent an assistant message after its death.
C8_Witness ==
    \E o \in Objs :
        /\ status[o] = "dead"
        /\ \E i \in 1..Len(appended[o]) : \E j \in (i + 1)..Len(appended[o]) :
              /\ Reports(appended[o][i], "dead")
              /\ appended[o][j] = Envelope(appended[o][j].id, "message", MAssistant)

\* Session o handles an inbound message in this step: a message envelope ends
\* its log after the step, and carries the message.
Handles(o) ==
    /\ Len(appended'[o]) > Len(appended[o])
    /\ Last(appended'[o]).event = "message"

Inbound(o) == Last(appended'[o]).data

IsToolUse(m) ==
    /\ "request" \in DOMAIN m
    /\ "subtype" \in DOMAIN m.request
    /\ m.request.subtype = "can_use_tool"

\* C9: on a session that is not Dead an assistant message sets Busy, a
\* tool-use control request sets WaitingForInput, a result sets Ready, and a
\* message of any other type leaves the status as it was.
C9_MessageSetsStatus ==
    [][\A o \in Objs :
          Handles(o) /\ status[o] # "dead" =>
              LET m == Inbound(o)
                  type == Get(m, "type")
              IN  status'[o] =
                     IF type = "assistant" THEN "busy"
                     ELSE IF type = "control_request" /\ IsToolUse(m)
                          THEN "waiting_for_input"
                     ELSE IF type = "result" THEN "ready"
                     ELSE status[o]]_vars

\* C9: a busy session was sent a control request that is no tool-use request
\* and is still Busy, then a tool-use request and waits for input.
C9_Witness ==
    \E o \in Objs :
        /\ status[o] = "waiting_for_input"
        /\ Len(appended[o]) >= 2 /\ Last(appended[o]).data = MToolUse
        /\ \E i \in 1..Len(appended[o]) :
              /\ appended[o][i].event = "message"
              /\ appended[o][i].data \in {MOtherCtl, MBareCtl}

\* The cost figure a result carries: its total_cost_usd, or else its cost_usd.
HasFigure(m) == IsNumber(m, "total_cost_usd") \/ IsNumber(m, "cost_usd")

Figure(m) == IF IsNumber(m, "total_cost_usd") THEN m.total_cost_usd ELSE m.cost_usd

\* C10: a result that carries a cost figure makes the accumulated cost that
\* figure, and a result that carries none leaves the accumulated cost as it was.
C10_CostIsLastFigure ==
    [][\A o \in Objs :
          Handles(o) /\ Get(Inbound(o), "type") = "result" =>
              totalCostUsd'[o] = IF HasFigure(Inbound(o)) THEN Figure(Inbound(o))
                                 ELSE totalCostUsd[o]]_vars

\* C10: results with the figures 2 and then 5 left the accumulated cost at 5.
C10_Witness ==
    \E o \in Objs :
        /\ totalCostUsd[o] = 5
        /\ \E i \in 1..Len(appended[o]) : \E j \in (i + 1)..Len(appended[o]) :
              /\ appended[o][i].event = "message" /\ appended[o][j].event = "message"
              /\ Get(appended[o][i].data, "type") = "result"
              /\ HasFigure(appended[o][i].data) /\ Figure(appended[o][i].data) = 2
              /\ Get(appended[o][j].data, "type") = "result"
              /\ HasFigure(appended[o][j].data) /\ Figure(appended[o][j].data) = 5

\* C11: the accumulated cost of a session never decreases.
C11_CostNeverDecreases ==
    [][\A o \in Objs : totalCostUsd'[o] >= totalCostUsd[o]]_vars

(* ----------------------------- process events -------------------------- *)

\* The envelopes Session o appends in this step.
Appends(o) == SubSeq(appended'[o], Len(appended[o]) + 1, Len(appended'[o]))

\* C12: when the process exits or reports an error, whatever the status, the
\* status becomes Dead and the log gains an exit (or error) envelope and, right
\* after it, the status envelope carrying Dead.
C12_TerminalPair ==
    [][\A o \in Objs :
          /\ proc'[o].exited /\ ~proc[o].exited =>
                /\ status'[o] = "dead"
                /\ Len(Appends(o)) = 2
                /\ Appends(o)[1].event = "exit"
                /\ Reports(Appends(o)[2], "dead")
                /\ Appends(o)[2].id = Appends(o)[1].id + 1
          /\ proc'[o].errored /\ ~proc[o].errored =>
                /\ status'[o] = "dead"
                /\ Len(Appends(o)) = 2
                /\ Appends(o)[1].event = "error"
                /\ Reports(Appends(o)[2], "dead")
                /\ Appends(o)[2].id = Appends(o)[1].id + 1]_vars

\* C12: the process of a created session failed to start: createSession
\* registered the session, and its log is ready, error, Dead.
C12_Witness ==
    \E o \in 1..nobj :
        /\ sessions[objId[o]] = o /\ status[o] = "dead"
        /\ Len(appended[o]) = 3
        /\ appended[o][2].event = "error"
        /\ Reports(appended[o][3], "dead")

\* The places of the log of o that hold an envelope for which Test holds.
Places(o, Test(_)) == {i \in 1..Len(appended[o]) : Test(appended[o][i])}

IsTerminal(e) == e.event \in {"exit", "error"}

IsDeadStatus(e) == Reports(e, "dead")

\* C13: the log of a Session holds at most one terminal envelope (exit or
\* error) and at most one status envelope carrying Dead, and holds one of each
\* once its process has exited or reported an error.
C13_NotifiedOnce ==
    \A o \in Objs :
        /\ Cardinality(Places(o, IsTerminal)) <= 1
        /\ Cardinality(Places(o, IsDeadStatus)) <= 1
        /\ proc[o].exited \/ proc[o].errored =>
              /\ Cardinality(Places(o, IsTerminal)) = 1
              /\ Cardinality(Places(o, IsDeadStatus)) = 1

\* C14: once a process that no destroy() signalled has exited and the line
\* reader of its session is closed, no non-empty line it wrote is left unread:
\* every such line has become a message envelope.
C14_EveryLineForwarded ==
    \A o \in Objs :
        proc[o].exited /\ ~proc[o].sigterm /\ ~stdoutRl[o] =>
            \A i \in 1..Len(pipe[o]) : pipe[o][i].kind = "empty"

\* The message a stdout line is forwarded as.
MessageOf(line) == IF line.kind = "json" THEN line.val ELSE RawMessage

IsStdoutMessage(e) == e.event = "message" /\ e.data # StderrMessage

\* C15: the message envelope a session appends for a stdout line is that of
\* the oldest line written and not yet forwarded, and a subscriber is handed
\* the envelopes of a step in the order they were appended, each with the next
\* sequence number.
C15_OrderPreserved ==
    [][\A o \in Objs :
          /\ Handles(o) /\ Inbound(o) # StderrMessage =>
                /\ Cardinality(Places(o, IsStdoutMessage)) < Len(written'[o])
                /\ Inbound(o) =
                      MessageOf(written'[o][Cardinality(Places(o, IsStdoutMessage)) + 1])
          /\ \A c \in Clients :
                conn[c].obj = o /\ conn'[c] = conn[c] =>
                    /\ recv'[c] = recv[c] \o Appends(o)
                    /\ \A i \in 1..Len(Appends(o)) :
                          Appends(o)[i].id = eventCounter[o] + i]_vars

\* C15: two different lines waited in the pipe of a session, both were read,
\* and a subscriber was handed both messages.
C15_Witness ==
    \E o \in Objs, c \in Clients :
        /\ Len(written[o]) = 2 /\ written[o][1] # written[o][2]
        /\ pipe[o] = <<>>
        /\ Cardinality(Places(o, IsStdoutMessage)) = 2
        /\ conn[c].obj = o
        /\ Cardinality({i \in 1..Len(recv[c]) : IsStdoutMessage(recv[c][i])}) = 2
        /\ conn[c].k = 1

(* --------------------------------- input ------------------------------- *)

\* A caller sends to a Session in this step.
Sends == sent'.n = sent.n + 1

\* C16: a send call (sendInput, sendStreamJsonMessage, sendInterrupt) on a
\* session that is Dead or has no process returns false, writes nothing to the
\* stdin of the process and sends it no signal.
C16_DeadRefusesInput ==
    [][Sends /\ (status[sent'.obj] = "dead" \/ ~process[sent'.obj]) =>
          ~sent'.val /\ proc' = proc]_vars

\* C16: sendInterrupt returned false on a session that is Dead and still holds
\* its process, after sendInput returned true on it.
C16_Witness ==
    /\ sent.n = 2 /\ sent.op = "sendInterrupt" /\ ~sent.val
    /\ status[sent.obj] = "dead" /\ process[sent.obj]
    /\ ~proc[sent.obj].sigint
    /\ proc[sent.obj].stdin = <<InitializeRequest, UserText>>

\* Session o came from createSession, and its process has emitted nothing since:
\* no stdout line, no stderr chunk, no exit and no error; and no destroy() was
\* called on it.
FreshlyCreated(o) ==
    /\ ~loaded[o].resumed /\ Len(appended[o]) = 1 /\ written[o] = <<>>
    /\ ~proc[o].exited /\ ~proc[o].errored
    /\ pending[o] = <<>> /\ ~proc[o].sigterm

\* C17: sendInput on a session createSession returned, before its process has
\* emitted anything, is written to the stdin of the process in that call and
\* returns true.
C17_EarlyInputIsWritten ==
    [][Sends /\ sent'.op = "sendInput" /\ FreshlyCreated(sent'.obj) =>
          /\ sent'.val
          /\ proc'[sent'.obj].stdin =
                Append(proc[sent'.obj].stdin, sent'.text)]_vars

\* C17: the first call on a created session, before any output, was a
\* sendInput that returned true, and its text is on the stdin of the process.
C17_Witness ==
    /\ sent.n = 1 /\ sent.op = "sendInput" /\ sent.val
    /\ FreshlyCreated(sent.obj)
    /\ proc[sent.obj].stdin = <<InitializeRequest, UserText>>

\* C18: the first line on the stdin of every spawned process is the initialize
\* request, and no other line on it is one.
C18_InitializeFirstAndOnce ==
    \A o \in Objs :
        proc[o].spawned =>
            /\ proc[o].stdin # <<>>
            /\ \A i \in 1..Len(proc[o].stdin) :
                  proc[o].stdin[i] = InitializeRequest <=> i = 1

\* C18: the process of a resumed session got the initialize request and then
\* two inputs of the callers.
C18_Witness ==
    \E o \in Objs :
        /\ loaded[o].resumed
        /\ Len(proc[o].stdin) = 3 /\ proc[o].stdin[1] = InitializeRequest

(* ---------------------------- SessionManager --------------------------- *)

\* The sessions of the registry that are not Dead.
NonDead == {id \in AllIDs : sessions[id] # NoObj /\ status[sessions[id]] # "dead"}

\* A call of `op` returns or throws in this step.
Calls(op) == ret' # ret /\ ret'.op = op

\* C19: a createSession call made while the registry holds maxSessions sessions
\* that are not Dead, or more, throws the capacity error, spawns no process and
\* adds no registry entry; and the registry never holds more than maxSessions
\* sessions that are not Dead.
C19_CapacityRespected ==
    /\ [][Calls("createSession") /\ Cardinality(NonDead) >= maxSessions =>
             /\ ret'.error = "Max sessions reached"
             /\ nobj' = nobj /\ proc' = proc /\ sessions' = sessions]_vars
    /\ [](Cardinality(NonDead) <= maxSessions)

\* C19: createSession threw the capacity error while the registry held
\* maxSessions sessions that are not Dead, one of them a resumed one.
C19_Witness ==
    /\ ret.op = "createSession" /\ ret.error = "Max sessions reached"
    /\ Cardinality(NonDead) = maxSessions
    /\ \E id \in NonDead : loaded[sessions[id]].resumed

\* C20: resumeSession(id) on an id whose registry entry is not Dead returns that
\* Session and changes nothing else.
C20_ResumeOfLiveIsNoOp ==
    [][Calls("resumeSession") /\ ret'.id \in NonDead =>
          /\ ret'.obj = sessions[ret'.id] /\ ret'.error = "none"
          /\ varsButRet' = varsButRet]_vars

\* C20: resumeSession returned the Session createSession had made, which is
\* not Dead.
C20_Witness ==
    /\ ret.op = "resumeSession" /\ ret.obj # NoObj
    /\ ~loaded[ret.obj].resumed
    /\ ret.id \in NonDead /\ sessions[ret.id] = ret.obj

\* The file of `id` records an upstream conversation identifier.
RecordsCli(id) ==
    \E i \in 1..Len(files[id].lines) :
        /\ files[id].lines[i].ok
        /\ files[id].lines[i].val.event = "message"
        /\ Get(files[id].lines[i].val.data, "type") = "system"
        /\ Get(files[id].lines[i].val.data, "subtype") = "init"
        /\ Get(files[id].lines[i].val.data, "session_id") # Undefined

\* The call throws one of the two errors of a session that cannot be found,
\* spawns no process and leaves the registry and the files as they were.
NotFoundNoEffect ==
    /\ ret'.error \in {"No history file found", "No CLI session_id found"}
    /\ nobj' = nobj /\ proc' = proc
    /\ sessions' = sessions /\ files' = files

\* C21, as claimed: resumeSession(id) fails with a not-found error, spawning
\* nothing and changing neither registry nor file, whenever the file of id is
\* absent or records no upstream conversation identifier.
C21_ClaimedNotFound ==
    [][Calls("resumeSession") /\ (~files[ret'.id].exists \/ ~RecordsCli(ret'.id))
          => NotFoundNoEffect]_vars

\* C21: resumeSession(id) on an id that has no registry entry that is not Dead
\* fails with a not-found error, spawning nothing and changing neither registry
\* nor file, whenever the file of id is absent or records no upstream
\* conversation identifier.
C21_NotFound ==
    [][/\ Calls("resumeSession") /\ ret'.id \notin NonDead
       /\ (~files[ret'.id].exists \/ ~RecordsCli(ret'.id))
       => NotFoundNoEffect]_vars

\* C21: resumeSession threw for a Dead session of the registry whose file
\* records no upstream conversation identifier; the entry is still there.
C21_Witness ==
    /\ ret.op = "resumeSession" /\ ret.error = "No CLI session_id found"
    /\ sessions[ret.id] # NoObj /\ status[sessions[ret.id]] = "dead"
    /\ files[ret.id].exists /\ ~RecordsCli(ret.id)

\* The envelopes of the lines of a file that parse, in the order of the file.
RECURSIVE Parsed(_)
Parsed(lines) ==
    IF lines = <<>> THEN <<>>
    ELSE IF Head(lines).ok THEN <<Head(lines).val>> \o Parsed(Tail(lines))
         ELSE Parsed(Tail(lines))

\* The upstream conversation identifiers the lines of a file record, in order.
Clis(lines) ==
    LET IsInit(evt) == /\ evt.event = "message"
                       /\ Get(evt.data, "type") = "system"
                       /\ Get(evt.data, "subtype") = "init"
                       /\ Get(evt.data, "session_id") # Undefined
        inits == SelectSeq(Parsed(lines), IsInit)
    IN  [i \in 1..Len(inits) |-> inits[i].data.session_id]

RegistryIds == {id \in AllIDs : sessions[id] # NoObj}
FileIds == {id \in AllIDs : files[id].exists}

\* A listSessions call returns in this step.
Lists == listed' # listed

\* C23: listSessions returns exactly one summary per id of the registry or of
\* the files: an id of the registry with the status of its session, an id that
\* only has a file as Dead.
C23_ListIsUnion ==
    [][Lists =>
          /\ {r.id : r \in listed'} = RegistryIds \cup FileIds
          /\ \A r, q \in listed' : r.id = q.id => r = q
          /\ \A r \in listed' :
                r.status = IF r.id \in RegistryIds THEN status[sessions[r.id]]
                           ELSE "dead"]_vars

\* C23: a listing of a session of the registry that is not Dead and has a file,
\* and of an id that only has a file.
C23_Witness ==
    \E r, q \in listed :
        /\ r.id \in RegistryIds \cap FileIds /\ r.status = "ready"
        /\ status[sessions[r.id]] = "ready"
        /\ q.id \in FileIds \ RegistryIds /\ q.status = "dead"

\* How many destroySession calls wait for the destroy() of Session o.
Waiting(p, o) == Cardinality({i \in 1..Len(p[o]) : p[o][i] = "destroySession"})

\* C24: a destroySession(id) call for an id of neither registry nor files throws
\* not-found and changes nothing; for an id that only has a file it deletes the
\* file and returns; for an id of the registry it returns, at once or when the
\* destroy() it waits for resolves, with the session Dead, no registry entry
\* and no file for id; and after it returned, id is in neither registry nor
\* files, so that a second call throws not-found.
C24_DestroySession ==
    /\ [][Calls("destroySession") =>
             LET id == ret'.id
                 o == sessions[id]
             IN  IF o = NoObj /\ ~files[id].exists
                 THEN /\ ret'.error = "Session not found"
                      /\ varsButRet' = varsButRet
                 ELSE IF o = NoObj
                 THEN /\ ret'.error = "none"
                      /\ ~files'[id].exists /\ sessions' = sessions
                 ELSE /\ ret'.error \in {"none", "pending"}
                      /\ ret'.error = "none" =>
                            /\ status'[o] = "dead"
                            /\ sessions'[id] = NoObj /\ ~files'[id].exists]_vars
    /\ [][\A o \in Objs :
             Waiting(pending', o) < Waiting(pending, o) =>
                 /\ status'[o] = "dead"
                 /\ sessions'[objId[o]] = NoObj /\ ~files'[objId[o]].exists]_vars
    /\ [](ret.op = "destroySession" /\ ret.error = "none" =>
             sessions[ret.id] = NoObj /\ ~files[ret.id].exists)

\* C24: a destroySession that threw not-found for the id of a session that was
\* in the registry, after the destroySession call that waited for its process.
C24_Witness ==
    /\ ret.op = "destroySession" /\ ret.error = "Session not found"
    /\ \E o \in 1..nobj : objId[o] = ret.id /\ proc[o].sigterm
    /\ sessions[ret.id] = NoObj /\ ~files[ret.id].exists

\* How many destroy() calls of the sweep wait for the process of Session o.
Sweeping(p, o) == Cardinality({i \in 1..Len(p[o]) : p[o][i] = "sweep"})

\* The registry and the existence of the files are as they were.
EntriesRemain ==
    /\ sessions' = sessions
    /\ \A id \in AllIDs : files'[id].exists = files[id].exists

\* C25: a sweep that destroys a session destroys exactly the sessions of the
\* registry that are not Dead and whose lastActiveAt lies more than a positive
\* sessionTimeoutSec before now; the sweep and the end of its destroy() leave
\* the registry and the files in place, with the session Dead; and a swept
\* session becomes Dead.
C25_SweepDestroysStale ==
    /\ [][(\E o \in Objs : Sweeping(pending', o) > Sweeping(pending, o)) =>
             /\ \A o \in Objs :
                   Sweeping(pending', o) > Sweeping(pending, o) <=>
                       /\ o <= nobj /\ sessions[objId[o]] = o
                       /\ status[o] # "dead"
                       /\ sessionTimeoutSec > 0
                       /\ now - lastActiveAt[o] > sessionTimeoutSec
             /\ EntriesRemain]_vars
    /\ [][\A o \in Objs :
             Sweeping(pending', o) < Sweeping(pending, o) =>
                 status'[o] = "dead" /\ EntriesRemain]_vars
    /\ \A o \in Objs : (Sweeping(pending, o) > 0) ~> (status[o] = "dead")

\* C25: a session that was swept is Dead and was resumed from its file.
C25_Witness ==
    \E o \in 1..nobj :
        /\ o < nobj /\ proc[o].sigterm /\ status[o] = "dead"
        /\ loaded[nobj].resumed /\ sessions[objId[o]] = nobj
        /\ status[nobj] # "dead"

(* ------------------------------- destroy ------------------------------- *)

\* A destroy() that waited on Session o resolves in this step.
Resolves(o) == Len(pending'[o]) < Len(pending[o])

\* The process of Session o exits in this step.
Exits(o) == proc'[o].exited /\ ~proc[o].exited

\* What destroy() leaves of Session o: Dead, no process, reader and writer
\* closed.
Destroyed(o) ==
    status[o] = "dead" /\ ~process[o] /\ ~stdoutRl[o] /\ ~jsonlStream[o]

\* C26: however many destroy() calls a session gets, each resolves with the
\* session Dead and its process, reader and writer released; the reader is
\* closed and the writer ended at most once; a destroy() that resolves on a
\* session an earlier one has left Dead and released changes nothing of it; and
\* no envelope is appended but by the creation of the session and the events of
\* its process.
C26_DestroyIdempotent ==
    /\ [](\A o \in Objs : proc[o].closes <= 1 /\ proc[o].ends <= 1)
    /\ [][\A o \in Objs : Resolves(o) => Destroyed(o)']_vars
    /\ [][\A o \in Objs :
             Resolves(o) /\ ~Exits(o) /\ Destroyed(o) =>
                 /\ proc'[o] = proc[o] /\ appended'[o] = appended[o]
                 /\ buffer'[o] = buffer[o]
                 /\ sessions' = sessions /\ files' = files]_vars
    /\ [][\A o \in Objs :
             appended'[o] # appended[o] =>
                 \/ nobj' # nobj \/ emitted' # emitted
                 \/ Exits(o) \/ proc'[o].errored # proc[o].errored]_vars

\* C26: the first of two destroy() calls that waited on a session has resolved
\* through its timer, and the second still waits.
C26_Witness ==
    \E o \in 1..nobj :
        /\ pending[o] = <<"destroyAll">> /\ Destroyed(o)
        /\ proc[o].sigkill /\ ~proc[o].exited

\* C27: whenever a destroy() resolves, at once within destroySession or after it
\* waited, the session is Dead, its process handle is null and its durable-log
\* writer is closed.
C27_ResolvedMeansReleased ==
    [][/\ Calls("destroySession") /\ ret'.obj # NoObj /\ ret'.error = "none" =>
             /\ status'[ret'.obj] = "dead"
             /\ ~process'[ret'.obj] /\ ~jsonlStream'[ret'.obj]
       /\ \A o \in Objs :
             Resolves(o) =>
                 status'[o] = "dead" /\ ~process'[o] /\ ~jsonlStream'[o]]_vars

\* C28: every destroy() that waits on a session resolves, whether or not the
\* process ever exits.
C28_DestroyResolves ==
    \A o \in Objs : (pending[o] # <<>>) ~> (pending[o] = <<>>)

\* C28: the destroy() calls of a session have resolved through their timers,
\* and its process got both signals and has not exited.
C28_Witness ==
    \E o \in 1..nobj :
        /\ pending[o] = <<>> /\ status[o] = "dead"
        /\ proc[o].sigterm /\ proc[o].sigkill /\ ~proc[o].exited

(* ----------------------------- subscribers ----------------------------- *)

\* The envelopes Session o appends in this step.
New(o) == SubSeq(appended'[o], Len(appended[o]) + 1, Len(appended'[o]))

\* The calls of the listeners in this step.
NewCalls == SubSeq(called', Len(called) + 1, Len(called'))

\* The listeners among the subscribers, in registration order.
ListenersOf(subs) == SelectSeq(subs, LAMBDA fn : fn \in Listeners)

\* One call of every listener of `subs`, in registration order, for each of the
\* envelopes, in their order.
RECURSIVE CallsInOrder(_, _)
CallsInOrder(subs, envelopes) ==
    IF envelopes = <<>> THEN <<>>
    ELSE [i \in 1..Len(ListenersOf(subs)) |->
             [fn |-> ListenersOf(subs)[i], id |-> Head(envelopes).id]]
         \o CallsInOrder(subs, Tail(envelopes))

RECURSIVE Lines(_)
Lines(envelopes) ==
    IF envelopes = <<>> THEN <<>>
    ELSE <<Stringify(Head(envelopes))>> \o Lines(Tail(envelopes))

\* C29: when a session with a subscriber that throws appends envelopes, every
\* subscriber registered before gets them all, in order; the listeners are
\* called in registration order for each envelope; and the envelopes are in the
\* buffer and in the file.
C29_ThrowIsContained ==
    [][\A o \in Objs :
          o <= nobj /\ appended'[o] # appended[o] =>
              /\ \A i \in 1..Len(subscribers[o]) :
                    recv'[subscribers[o][i]] = recv[subscribers[o][i]] \o New(o)
              /\ NewCalls = CallsInOrder(subscribers'[o], New(o))
              /\ buffer'[o] = Suffix(buffer[o] \o New(o), bufferSize)
              /\ files'[objId[o]].lines =
                    files[objId[o]].lines \o Lines(New(o))]_vars

\* C29: a listener registered after one that throws has been called with the
\* three envelopes the session appended since, after the one that throws.
C29_Witness ==
    \E o \in 1..nobj :
        /\ ListenersOf(subscribers[o]) = <<"thrower", "plain">>
        /\ Len(recv["plain"]) = 3 /\ recv["thrower"] = recv["plain"]
        /\ called[Len(called)].fn = "plain"

\* C30: a callback that another subscriber's callback registers during the
\* delivery of an envelope is not called with that envelope.
C30_LateGetsOnlyLater ==
    [][\A o \in Objs, fn \in Listeners :
          /\ \A i \in 1..Len(subscribers[o]) : subscribers[o][i] # fn
          /\ \E i \in 1..Len(subscribers'[o]) : subscribers'[o][i] = fn
          /\ appended'[o] # appended[o]
          => recv'[fn] = recv[fn]]_vars

\* C35: a destroy() sends SIGTERM before any SIGKILL; SIGKILL is sent only when
\* the timer of a waiting destroy() fires while the process has not exited; an
\* exit resolves every waiting destroy(), so that no timer fires later, and no
\* SIGKILL is sent at or after the exit; and once a timer has fired, a destroy()
\* resolves at most once more per call and the exit closes and ends nothing
\* again.
C35_GracefulThenForced ==
    /\ [](\A o \in Objs : proc[o].sigkill => proc[o].sigterm)
    /\ [][\A o \in Objs :
             proc'[o].sigkill /\ ~proc[o].sigkill =>
                 /\ pending[o] # <<>> /\ Resolves(o)
                 /\ ~proc[o].exited /\ ~Exits(o)]_vars
    /\ [][\A o \in Objs :
             Exits(o) => pending'[o] = <<>> /\ proc'[o].sigkill = proc[o].sigkill]_vars
    /\ [][\A o \in Objs :
             proc[o].exited =>
                 /\ proc'[o].sigkill = proc[o].sigkill
                 /\ pending[o] = <<>> /\ pending'[o] = <<>>]_vars
    /\ [][\A o \in Objs :
             Exits(o) /\ proc[o].sigkill =>
                 /\ proc'[o].closes = proc[o].closes
                 /\ proc'[o].ends = proc[o].ends
                 /\ <<status'[o], process'[o], stdoutRl'[o], jsonlStream'[o]>>
                      = <<status[o], process[o], stdoutRl[o], jsonlStream[o]>>]_vars

\* C35: the timer of a destroy() fired and SIGKILL was sent, and the process
\* has exited since.
C35_Witness ==
    \E o \in 1..nobj :
        /\ proc[o].sigterm /\ proc[o].sigkill /\ proc[o].exited
        /\ pending[o] = <<>> /\ proc[o].ends = 1

\* C36: a session that is Dead has no process handle.
C36_DeadHasNoHandle ==
    \A o \in 1..nobj : status[o] = "dead" => ~process[o]

\* The status envelopes among those Session o appended, oldest first.
StatusEnvelopes(o) == SelectSeq(appended[o], LAMBDA e : e.event = "status")

\* C38: the last status envelope of a session that is not Starting carries the
\* session's status.
C38_LastStatusIsCurrent ==
    \A o \in 1..nobj :
        status[o] # "starting" =>
            /\ StatusEnvelopes(o) # <<>>
            /\ Last(StatusEnvelopes(o)).data.status = status[o]

\* C39: a resumeSession that throws the capacity error leaves the registry as
\* it was.
C39_RejectedResumeKeepsEntry ==
    [][Calls("resumeSession") /\ ret'.error = "Max sessions reached" =>
          sessions' = sessions /\ nobj' = nobj]_vars

\* The calls of this step that hand envelope e to listener fn.
CallsOf(fn, e) ==
    {i \in 1..Len(NewCalls) : NewCalls[i] = [fn |-> fn, id |-> e.id]}

\* C37: when a session delivers an envelope while callbacks unsubscribe
\* themselves or another listener, every listener registered when the delivery
\* started is called with it exactly once.
C37_NoneSkippedNoneTwice ==
    [][\A o \in Objs :
          o <= nobj /\ appended'[o] # appended[o] =>
              \A i \in 1..Len(ListenersOf(subscribers[o])) :
                  Cardinality(CallsOf(ListenersOf(subscribers[o])[i],
                                      New(o)[1])) = 1]_vars

\* A destroy() that destroySession waited for on Session o resolves in this
\* step, through the exit of the process or through its timer.
DestroySessionResolves(o) ==
    /\ Resolves(o)
    /\ IF Exits(o) THEN \E i \in 1..Len(pending[o]) : pending[o][i] = "destroySession"
       ELSE Head(pending[o]) = "destroySession"

\* C40: a destroySession(id) that starts while a destroy() of the session waits
\* does not throw; every destroy() that waits resolves; when one that
\* destroySession waited for resolves, the session is Dead, the registry has no
\* entry for id and the file is deleted; and the destroy() calls that resolve
\* later leave it so.
C40_OverlappingDestroys ==
    /\ [][Calls("destroySession") /\ sessions[ret'.id] # NoObj =>
             ret'.error \in {"none", "pending"} /\ ret'.obj = sessions[ret'.id]]_vars
    /\ [][\A o \in Objs :
             DestroySessionResolves(o) =>
                 /\ status'[o] = "dead"
                 /\ sessions'[objId[o]] = NoObj
                 /\ ~files'[objId[o]].exists]_vars
    /\ [][\A o \in Objs :
             Resolves(o) =>
                 /\ status'[o] = "dead"
                 /\ sessions[objId[o]] = NoObj => sessions'[objId[o]] = NoObj
                 /\ ~files[objId[o]].exists => ~files'[objId[o]].exists]_vars
    /\ \A o \in Objs : (Len(pending[o]) > 1) ~> (pending[o] = <<>>)

\* C40: of two destroy() calls that waited on a session at once, the older has
\* resolved through its timer, and the one of a destroySession call still
\* waits for the process, which was sent SIGKILL, to exit.
C40_Witness ==
    \E o \in 1..nobj :
        /\ ret = Awaits("destroySession", objId[o], o)
        /\ pending[o] = <<"destroySession">>
        /\ proc[o].sigkill /\ ~proc[o].exited
        /\ status[o] = "dead"

(* ------------------------------- the buffer ---------------------------- *)

\* C31: the buffer of a session never holds more than `capacity` envelopes and
\* is the last `capacity` of what the session loaded from its file and then
\* appended; and every subscriber registered when a session appends envelopes
\* receives them all, whatever the buffer evicts.
C31_BufferIsRecentSuffix ==
    /\ [](\A o \in 1..nobj :
            /\ Len(buffer[o]) <= capacity
            /\ buffer[o] = Suffix(Parsed(loaded[o].lines) \o appended[o],
                                  capacity))
    /\ [][\A o \in Objs :
            o <= nobj /\ appended'[o] # appended[o] =>
                \A i \in 1..Len(subscribers[o]) :
                    recv'[subscribers[o][i]] = recv[subscribers[o][i]] \o New(o)]_vars

\* C31: a resumed session whose buffer holds one entry loaded more than that
\* from its file, and its listener has received the three envelopes appended
\* since it subscribed, the last of which is the one the buffer holds.
C31_Witness ==
    \E o \in 1..nobj :
        /\ capacity = 1 /\ loaded[o].resumed
        /\ Len(Parsed(loaded[o].lines)) > capacity
        /\ Len(recv["plain"]) = 3
        /\ buffer[o] = <<Last(recv["plain"])>>

(* ----------------------------- the durable file ------------------------ *)

\* C32: the durable file of a session starts with the metadata line, and the
\* envelopes on the lines after it carry strictly increasing numbers.
C32_FileOrderIsSequenceOrder ==
    \A id \in AllIDs :
        files[id].exists =>
            LET lines == files[id].lines
            IN  /\ lines # <<>> /\ lines[1] = MetaLine
                /\ \A i \in 2..Len(lines) :
                      /\ lines[i].ok
                      /\ i > 2 => lines[i - 1].val.id < lines[i].val.id

\* The envelopes Session o has placed in its buffer or delivered to a callback.
Seen(o) ==
    {appended[o][i] : i \in 1..Len(appended[o])}

\* C33: while the durable file of a session is there, it holds every envelope the
\* session has placed in its buffer or delivered to a subscriber.
C33_FileIsComplete ==
    \A o \in 1..nobj :
        files[objId[o]].exists /\ sessions[objId[o]] = o =>
            \A e \in Seen(o) :
                \E i \in 1..Len(files[objId[o]].lines) :
                    files[objId[o]].lines[i] = Stringify(e)

\* C34: no two Session objects hold an open writer on the durable file of one
\* id.
C34_SingleWriter ==
    \A o1, o2 \in 1..nobj :
        /\ o1 # o2 /\ objId[o1] = objId[o2]
        /\ files[objId[o1]].exists
        => ~(jsonlStream[o1] /\ jsonlStream[o2])

====
